---- MODULE Spec2Model ----
(***************************************************************************)
(* A model of src/src/reporter.ts: the DiscordReporter of                  *)
(* vitest-discord-reporter.  A JavaScript string is a sequence of UTF-16   *)
(* code units; a code unit is a one-character string, or "U+xxxx" for a    *)
(* unit outside ASCII.  String lengths are the lengths the code compares.  *)
(***************************************************************************)
EXTENDS Integers, Sequences, FiniteSets, TLC

VARIABLES
    optionUrl,        \* options.webhookUrl as the constructor received it
    reporterOptions,  \* this.reporterOptions (Required<DiscordReporterOptions>)
    env,              \* process.env.VITE_DISCORD_REPORTER_WEBHOOK_URL: [set, value]
    ctx,              \* this.ctx: [defined] (undefined until onInit)
    startTime,        \* this.startTime
    pc,               \* position of the host/reporter conversation
    filesGiven,       \* whether onFinished received its files argument
    testFiles,        \* onFinished's testFiles
    duration,         \* onFinished's duration
    embeds,           \* onFinished's embeds
    sendCalls,        \* calls of sendDiscordMessage: <<[url, embeds]>>
    sendError,        \* the error the pending or failed send gave
    loggerCalls,      \* calls of ctx.logger: <<[method, message, hasError, error]>>
    outcome,          \* how the promise of onFinished settled
    tFn, tIn, tOut,   \* a truncation applied alone: which one, its input s, f(s)
    tAgain, tOut2     \* whether it was applied to f(s) too, and f(f(s))

vars == <<optionUrl, reporterOptions, env, ctx, startTime, pc, filesGiven, testFiles,
          duration, embeds, sendCalls, sendError, loggerCalls, outcome,
          tFn, tIn, tOut, tAgain, tOut2>>

reporterVars == <<optionUrl, reporterOptions, env, ctx, startTime, pc, filesGiven, testFiles,
                  duration, embeds, sendCalls, sendError, loggerCalls, outcome>>

truncVars == <<tFn, tIn, tOut, tAgain, tOut2>>

(***************************************************************************)
(* Strings                                                                 *)
(***************************************************************************)
Str(n, c) == [i \in 1..n |-> c]

\* A string of n units cycling through a, b, c: cuts at different places differ.
Cyc(n) == [i \in 1..n |-> <<"a", "b", "c">>[(i % 3) + 1]]

substring(s, start, end) ==
    LET e == IF end > Len(s) THEN Len(s) ELSE end
    IN SubSeq(s, start + 1, e)

RECURSIVE join(_, _)
join(parts, sep) ==
    IF Len(parts) = 0 THEN <<>>
    ELSE IF Len(parts) = 1 THEN parts[1]
    ELSE join(SubSeq(parts, 1, Len(parts) - 1), sep) \o sep \o parts[Len(parts)]

Digit(d) == <<"0", "1", "2", "3", "4", "5", "6", "7", "8", "9">>[d + 1]

RECURSIVE toString(_)
toString(n) ==
    IF n < 0 THEN <<"-">> \o toString(0 - n)
    ELSE IF n < 10 THEN <<Digit(n)>>
    ELSE toString(n \div 10) \o <<Digit(n % 10)>>

\* (duration / 1000).toFixed(2) for a duration >= 0 whose last digit is not 5
\* (no tie between two hundredths, so the double's rounding plays no part).
toFixed2(ms) ==
    LET cents == (ms + 5) \div 10
    IN toString(cents \div 100) \o <<".">>
         \o <<Digit((cents \div 10) % 10), Digit(cents % 10)>>

PathSep == <<" ", ">", " ">>
Ellipsis == <<".", ".", ".">>
Newline == <<"\n">>
Fence == <<"BQ", "BQ", "BQ">>      \* three backticks
TruncatedMarker ==
    <<"\n", ".", ".", ".", " ", "(", "t", "r", "u", "n", "c", "a", "t", "e", "d", ")">>
UnknownError == <<"U", "n", "k", "n", "o", "w", "n", " ", "e", "r", "r", "o", "r">>
DefaultTitle == <<"T", "e", "s", "t", " ", "R", "e", "s", "u", "l", "t", "s">>
FailedTitle ==
    <<"U+274C", " ", "F", "a", "i", "l", "e", "d", " ", "T", "e", "s", "t", "s">>
PassedTitle ==
    <<"U+2705", " ", "P", "a", "s", "s", "e", "d", " ", "T", "e", "s", "t", "s">>
PassedName == <<"U+2705", " ", "P", "a", "s", "s", "e", "d">>
FailedName == <<"U+274C", " ", "F", "a", "i", "l", "e", "d">>
SkippedName == <<"U+23ED", "U+FE0F", " ", "S", "k", "i", "p", "p", "e", "d">>
DurationName == <<"U+23F1", "U+FE0F", " ", "D", "u", "r", "a", "t", "i", "o", "n">>
TotalName == <<"U+D83D", "U+DCCA", " ", "T", "o", "t", "a", "l">>
CheckPrefix == <<"U+2713", " ">>
AllPassed ==
    <<"A", "l", "l", " ", "t", "e", "s", "t", "s", " ", "p", "a", "s", "s", "e", "d", "!">>
ShowingPrefix == <<"S", "h", "o", "w", "i", "n", "g", " ">>
OfInfix == <<" ", "o", "f", " ">>
FailedSuffix == <<" ", "f", "a", "i", "l", "e", "d", " ", "t", "e", "s", "t", "s">>
PassedSuffix == <<" ", "p", "a", "s", "s", "e", "d", " ", "t", "e", "s", "t", "s">>

LogSent == "U+2705 Discord notification sent"
LogNoWebhook == "U+26A0 Discord webhook URL not provided. Skipping notification."
LogFailed == "U+274C Failed to send Discord notification:"

(***************************************************************************)
(* Program constants                                                       *)
(***************************************************************************)
ColorFailure == 15548997       \* 0xed4245
ColorSuccess == 5763719        \* 0x57f287
MaxFields == 10
NameLimit == 256
NameCut == 253
ValueLimit == 1024
ValueCut == 1021
DescriptionLimit == 2048
DescriptionCut == 2045
MaxPassedShown == 20
StackMaxLength == 800

(***************************************************************************)
(* The result tree (RunnerTestFile, RunnerTask).  An optional field of the *)
(* source is a record with a `present` flag: result?: {state, errors?},    *)
(* tasks?: RunnerTask[].  errors absent and errors empty read alike        *)
(* (errors?.[0] is undefined), as do message/stack absent and ''.          *)
(***************************************************************************)
NoResult == [present |-> FALSE, state |-> "none", errors |-> <<>>]
Result(state, errors) == [present |-> TRUE, state |-> state, errors |-> errors]
NoTasks == [present |-> FALSE, items |-> <<>>]
Tasks(items) == [present |-> TRUE, items |-> items]
Err(message, stack) == [message |-> message, stack |-> stack]
Test(name, mode, result) ==
    [type |-> "test", name |-> name, mode |-> mode, result |-> result, tasks |-> NoTasks]
Suite(name, tasks) ==
    [type |-> "suite", name |-> name, mode |-> "run", result |-> NoResult, tasks |-> tasks]
File(name, tasks) == [name |-> name, tasks |-> tasks]

(***************************************************************************)
(* truncateStackTrace and the three inline truncations                     *)
(***************************************************************************)
\* truncateStackTrace with < written for <=.
truncateStackTraceOffByOne(stack, maxLength) ==
    IF Len(stack) < maxLength THEN stack
    ELSE substring(stack, 0, maxLength) \o TruncatedMarker

truncateStackTrace(stack, maxLength) ==
    IF Len(stack) <= maxLength THEN stack
    ELSE substring(stack, 0, maxLength) \o TruncatedMarker

truncateName(name) ==
    IF Len(name) > NameLimit THEN substring(name, 0, NameCut) \o Ellipsis ELSE name

truncateValue(error) ==
    IF Len(error) > ValueLimit THEN substring(error, 0, ValueCut) \o Ellipsis ELSE error

truncateDescription(testList) ==
    IF Len(testList) > DescriptionLimit
    THEN substring(testList, 0, DescriptionCut) \o Ellipsis
    ELSE testList

(***************************************************************************)
(* calculateStats                                                          *)
(***************************************************************************)
ZeroStats == [passed |-> 0, failed |-> 0, skipped |-> 0, total |-> 0]

\* countTests without its test on task.type.
countTestCountsSuites(task, st) ==
    LET t == [st EXCEPT !.total = @ + 1]
    IN IF task.result.present /\ task.result.state = "pass"
         THEN [t EXCEPT !.passed = @ + 1]
       ELSE IF task.result.present /\ task.result.state = "fail"
         THEN [t EXCEPT !.failed = @ + 1]
       ELSE IF task.mode = "skip" \/ task.mode = "todo"
         THEN [t EXCEPT !.skipped = @ + 1]
       ELSE t

\* The body of countTests for one node, before it descends (lines 132-141).
countTest(task, st) ==
    IF task.type = "test"
    THEN LET t == [st EXCEPT !.total = @ + 1]
         IN IF task.result.present /\ task.result.state = "pass"
              THEN [t EXCEPT !.passed = @ + 1]
            ELSE IF task.result.present /\ task.result.state = "fail"
              THEN [t EXCEPT !.failed = @ + 1]
            ELSE IF task.mode = "skip" \/ task.mode = "todo"
              THEN [t EXCEPT !.skipped = @ + 1]
            ELSE t
    ELSE st

RECURSIVE countTests(_, _), countTasks(_, _, _)
countTests(task, st) ==
    LET s1 == countTest(task, st)
    IN IF task.tasks.present THEN countTasks(task.tasks.items, 1, s1) ELSE s1

\* tasks.forEach(countTests), from the i-th task on
countTasks(tasks, i, st) ==
    IF i > Len(tasks) THEN st
    ELSE countTasks(tasks, i + 1, countTests(tasks[i], st))

RECURSIVE countFiles(_, _, _)
countFiles(files, i, st) ==
    IF i > Len(files) THEN st
    ELSE countFiles(files, i + 1,
                    IF files[i].tasks.present
                    THEN countTasks(files[i].tasks.items, 1, st)
                    ELSE st)

calculateStats(files) == countFiles(files, 1, ZeroStats)

(***************************************************************************)
(* getFailedTests                                                          *)
(***************************************************************************)
\* The error text of a failed test (lines 166-172).
failedError(task, includeStackTrace) ==
    LET first == IF Len(task.result.errors) > 0 THEN task.result.errors[1]
                 ELSE Err(<<>>, <<>>)
        errorMessage == IF first.message # <<>> THEN first.message ELSE UnknownError
        stackTrace == first.stack
    IN IF includeStackTrace /\ stackTrace # <<>>
       THEN errorMessage \o Newline \o Fence \o Newline
              \o truncateStackTrace(stackTrace, StackMaxLength)
              \o Newline \o Fence
       ELSE errorMessage

RECURSIVE collectFailed(_, _, _), collectFailedTasks(_, _, _, _)
collectFailed(task, path, includeStackTrace) ==
    LET currentPath == Append(path, task.name)
        own == IF task.type = "test" /\ task.result.present /\ task.result.state = "fail"
               THEN << [name |-> join(currentPath, PathSep),
                        error |-> failedError(task, includeStackTrace)] >>
               ELSE <<>>
    IN IF task.tasks.present
       THEN own \o collectFailedTasks(task.tasks.items, 1, currentPath, includeStackTrace)
       ELSE own

collectFailedTasks(tasks, i, path, includeStackTrace) ==
    IF i > Len(tasks) THEN <<>>
    ELSE collectFailed(tasks[i], path, includeStackTrace)
           \o collectFailedTasks(tasks, i + 1, path, includeStackTrace)

RECURSIVE getFailedFrom(_, _, _)
getFailedFrom(files, i, includeStackTrace) ==
    IF i > Len(files) THEN <<>>
    ELSE (IF files[i].tasks.present
          THEN collectFailedTasks(files[i].tasks.items, 1, <<files[i].name>>,
                                  includeStackTrace)
          ELSE <<>>)
         \o getFailedFrom(files, i + 1, includeStackTrace)

\* getFailedTests collecting with unshift for push.
getFailedTestsReversed(files, includeStackTrace) ==
    LET f == getFailedFrom(files, 1, includeStackTrace)
    IN [i \in 1..Len(f) |-> f[Len(f) + 1 - i]]

getFailedTests(files, includeStackTrace) == getFailedFrom(files, 1, includeStackTrace)

(***************************************************************************)
(* Embeds (APIEmbed).  An optional member is a `has` flag and a value.     *)
(***************************************************************************)
Embed(title, color) ==
    [title |-> title, color |-> color,
     hasDescription |-> FALSE, description |-> <<>>,
     hasFields |-> FALSE, fields |-> <<>>,
     hasFooter |-> FALSE, footer |-> <<>>,
     hasTimestamp |-> FALSE, timestamp |-> 0]

Field(name, value, inline) == [name |-> name, value |-> value, inline |-> inline]

slice(s, n) == IF Len(s) > n THEN SubSeq(s, 1, n) ELSE s

\* buildFailedTestsEmbed without slice(0, 10) and without the description.
buildFailedTestsEmbedNoLimit(failedTests) ==
    << [Embed(FailedTitle, ColorFailure) EXCEPT
          !.hasFields = TRUE,
          !.fields = [i \in 1..Len(failedTests) |->
                        Field(truncateName(failedTests[i].name),
                              truncateValue(failedTests[i].error), FALSE)]] >>

\* buildFailedTestsEmbed: <<>> for null, <<embed>> otherwise.
buildFailedTestsEmbed(failedTests) ==
    IF Len(failedTests) = 0 THEN <<>>
    ELSE LET shown == slice(failedTests, MaxFields)
             fields == [i \in 1..Len(shown) |->
                          Field(truncateName(shown[i].name),
                                truncateValue(shown[i].error), FALSE)]
             embed == [Embed(FailedTitle, ColorFailure) EXCEPT
                          !.hasFields = TRUE, !.fields = fields]
         IN IF Len(failedTests) > MaxFields
            THEN << [embed EXCEPT
                       !.hasDescription = TRUE,
                       !.description = ShowingPrefix \o toString(MaxFields) \o OfInfix
                                         \o toString(Len(failedTests)) \o FailedSuffix] >>
            ELSE << embed >>

RECURSIVE collectPassed(_, _), collectPassedTasks(_, _, _)
collectPassed(task, path) ==
    LET currentPath == Append(path, task.name)
        own == IF task.type = "test" /\ task.result.present /\ task.result.state = "pass"
               THEN << join(currentPath, PathSep) >>
               ELSE <<>>
    IN IF task.tasks.present
       THEN own \o collectPassedTasks(task.tasks.items, 1, currentPath)
       ELSE own

collectPassedTasks(tasks, i, path) ==
    IF i > Len(tasks) THEN <<>>
    ELSE collectPassed(tasks[i], path) \o collectPassedTasks(tasks, i + 1, path)

RECURSIVE getPassedFrom(_, _)
getPassedFrom(files, i) ==
    IF i > Len(files) THEN <<>>
    ELSE (IF files[i].tasks.present
          THEN collectPassedTasks(files[i].tasks.items, 1, <<files[i].name>>)
          ELSE <<>>)
         \o getPassedFrom(files, i + 1)

\* buildPassedTestsEmbed: <<>> for null, <<embed>> otherwise.
buildPassedTestsEmbed(files) ==
    LET passedTests == getPassedFrom(files, 1)
        shown == slice(passedTests, MaxPassedShown)
        testList == join([i \in 1..Len(shown) |-> CheckPrefix \o shown[i]], Newline)
        description == truncateDescription(testList)
        embed == [Embed(PassedTitle, ColorSuccess) EXCEPT
                     !.hasDescription = TRUE,
                     !.description = IF description # <<>> THEN description ELSE AllPassed]
    IN IF Len(passedTests) = 0 THEN <<>>
       ELSE IF Len(passedTests) > MaxPassedShown
       THEN << [embed EXCEPT
                  !.hasFooter = TRUE,
                  !.footer = ShowingPrefix \o toString(MaxPassedShown) \o OfInfix
                               \o toString(Len(passedTests)) \o PassedSuffix] >>
       ELSE << embed >>

\* The summary color without its test on stats.failed.
summaryColorAlwaysGreen(stats) == ColorSuccess

summaryColor(stats) == IF stats.failed > 0 THEN ColorFailure ELSE ColorSuccess

summaryEmbed(stats, options, durationMs, timestamp) ==
    LET base == [Embed(options.title, summaryColor(stats)) EXCEPT
                    !.hasFields = TRUE,
                    !.fields = << Field(PassedName, toString(stats.passed), TRUE),
                                  Field(FailedName, toString(stats.failed), TRUE),
                                  Field(SkippedName, toString(stats.skipped), TRUE),
                                  Field(DurationName, toFixed2(durationMs) \o <<"s">>, TRUE),
                                  Field(TotalName, toString(stats.total), TRUE) >>,
                    !.hasTimestamp = TRUE,
                    !.timestamp = timestamp]
    IN IF stats.failed > 0 /\ options.mentionOnFailure # <<>>
       THEN [base EXCEPT !.hasDescription = TRUE,
                         !.description = options.mentionOnFailure]
       ELSE base

\* buildEmbeds with its two detail blocks in the other order.
buildEmbedsPassedFirst(files, durationMs, options, timestamp) ==
    LET stats == calculateStats(files)
        failedTests == getFailedTests(files, options.includeStackTrace)
    IN << summaryEmbed(stats, options, durationMs, timestamp) >>
         \o (IF options.showPassedTests /\ stats.passed > 0
             THEN buildPassedTestsEmbed(files) ELSE <<>>)
         \o (IF Len(failedTests) > 0 THEN buildFailedTestsEmbed(failedTests) ELSE <<>>)

buildEmbeds(files, durationMs, options, timestamp) ==
    LET stats == calculateStats(files)
        failedTests == getFailedTests(files, options.includeStackTrace)
    IN << summaryEmbed(stats, options, durationMs, timestamp) >>
         \o (IF Len(failedTests) > 0 THEN buildFailedTestsEmbed(failedTests) ELSE <<>>)
         \o (IF options.showPassedTests /\ stats.passed > 0
             THEN buildPassedTestsEmbed(files) ELSE <<>>)

(***************************************************************************)
(* Bounds and inputs                                                       *)
(***************************************************************************)
MaxFailed == 12        \* most failing tests in one generated run
MaxPassed == 21        \* most passing tests in one generated run
Spread == 3            \* how far below the maximum the generated runs go

Nm(prefix, i) == <<prefix>> \o toString(i)

tPass(name) == Test(name, "run", Result("pass", <<>>))
tFail(name, message, stack) == Test(name, "run", Result("fail", <<Err(message, stack)>>))
tFailNoErrors(name) == Test(name, "run", Result("fail", <<>>))
tSkip(name) == Test(name, "skip", NoResult)
tSkipped(name) == Test(name, "skip", Result("skip", <<>>))
tTodo(name) == Test(name, "todo", NoResult)
tPending(name) == Test(name, "run", NoResult)
tRunning(name) == Test(name, "run", Result("run", <<>>))

\* One file, one suite, k failing tests, each with its own name and message.
ManyFailed(k) ==
    << File(<<"f">>, Tasks(<< Suite(<<"s">>,
          Tasks([i \in 1..k |-> tFail(Nm("t", i), Nm("e", i), <<>>)])) >>)) >>

\* Two files sharing k passing tests, the second file's in a suite.
ManyPassed(k) ==
    << File(<<"f">>, Tasks([i \in 1..(k \div 2) |-> tPass(Nm("p", i))])),
       File(<<"g">>, Tasks(<< Suite(<<"s">>,
          Tasks([i \in 1..(k - (k \div 2)) |-> tPass(Nm("q", i))])) >>)) >>

ScenarioA ==
    << File(<<"a", ".", "t", "s">>, Tasks(<< Suite(<<"s">>, Tasks(<<
          tPass(<<"p">>),
          tFail(<<"x">>, <<"b", "o", "o", "m">>, <<"a", "t", " ", "x">>),
          tSkip(<<"k">>) >>)) >>)) >>

Nested ==
    << File(<<"f", "1">>, Tasks(<<
          tPass(<<"a">>),
          Suite(<<"s", "1">>, Tasks(<<
              tFail(<<"b">>, <<"m", "b">>, <<"s", "b">>),
              Suite(<<"s", "2">>, Tasks(<<
                  tPass(<<"c">>),
                  tFailNoErrors(<<"d">>) >>)),
              tSkipped(<<"e">>) >>)),
          tFail(<<"g">>, <<>>, <<"s", "g">>) >>)),
       File(<<"f", "2">>, NoTasks),
       File(<<"f", "3">>, Tasks(<<
          Suite(<<"h">>, NoTasks),
          tPending(<<"i">>),
          tRunning(<<"j">>),
          tTodo(<<"k">>),
          tPass(<<"l">>) >>)) >>

Unclassified ==
    << File(<<"u">>, Tasks(<< tPending(<<"i">>), tRunning(<<"j">>),
                              Suite(<<"s">>, Tasks(<< tRunning(<<"r">>) >>)) >>)) >>

OnlySkipped ==
    << File(<<"k">>, Tasks(<< tSkip(<<"a">>), tTodo(<<"b">>),
                              Test(<<"c">>, "todo", Result("pass", <<>>)) >>)) >>

\* A failing test whose path has exactly n units, whose error message has m units
\* and whose stack has k units; beside it a passing test whose path has p units.
Sized(n, m, k, p) ==
    << File(<<"f">>, Tasks(<<
          tFail(Cyc(n - 4), Cyc(m), Cyc(k)),
          tPass(Cyc(p - 4)) >>)) >>

FileLists ==
    { <<>>, ScenarioA, Nested, Unclassified, OnlySkipped }
    \cup { ManyFailed(k) : k \in (MaxFailed - Spread)..MaxFailed }
    \cup { ManyPassed(k) : k \in {MaxPassed - 1, MaxPassed} }
    \cup { Sized(NameLimit, ValueLimit, StackMaxLength, DescriptionLimit - 2),
           Sized(NameLimit + 1, ValueLimit + 1, StackMaxLength + 1, DescriptionLimit - 1),
           Sized(NameLimit + Spread, ValueLimit - 1, ValueLimit, DescriptionLimit + Spread) }

Durations == {1234, 2500}
InitTimes == {1000}

OptUrl == "https://discord.example/api/webhooks/option"
EnvUrl == "https://discord.example/api/webhooks/env"
CustomTitle == <<"C", "I">>
Mention == <<"@", "h", "e", "r", "e">>
LongMention == Cyc(DescriptionLimit + 1)

Omitted == [given |-> FALSE, value |-> FALSE]
Given(b) == [given |-> TRUE, value |-> b]

\* DiscordReporterOptions: a string option omitted and '' read alike (||).
OptionInputs ==
    [webhookUrl : {"", OptUrl},
     title : {<<>>, CustomTitle},
     includeStackTrace : {Omitted, Given(TRUE), Given(FALSE)},
     mentionOnFailure : {<<>>, Mention, LongMention},
     showPassedTests : {Omitted, Given(TRUE), Given(FALSE)}]

EnvInputs == {[set |-> FALSE, value |-> ""], [set |-> TRUE, value |-> ""],
              [set |-> TRUE, value |-> EnvUrl]}

\* What the opaque sendDiscordMessage can reject or throw with.
SendErrors == {"NetworkError", "HTTP 400"}

(***************************************************************************)
(* The reporter                                                            *)
(***************************************************************************)
constructor(options) ==
    [webhookUrl |-> options.webhookUrl,
     title |-> IF options.title # <<>> THEN options.title ELSE DefaultTitle,
     includeStackTrace |->
        IF options.includeStackTrace.given THEN options.includeStackTrace.value ELSE FALSE,
     mentionOnFailure |-> options.mentionOnFailure,
     showPassedTests |->
        IF options.showPassedTests.given THEN options.showPassedTests.value ELSE TRUE]

IdleTrunc == tFn = "none" /\ tIn = <<>> /\ tOut = <<>> /\ tAgain = FALSE /\ tOut2 = <<>>

Init ==
    /\ \E options \in OptionInputs :
          /\ optionUrl = options.webhookUrl
          /\ reporterOptions = constructor(options)
    /\ env \in EnvInputs
    /\ ctx = [defined |-> FALSE]
    /\ startTime = 0
    /\ pc = "constructed"
    /\ filesGiven = FALSE
    /\ testFiles = <<>>
    /\ duration = 0
    /\ embeds = <<>>
    /\ sendCalls = <<>>
    /\ sendError = "none"
    /\ loggerCalls = <<>>
    /\ outcome = [state |-> "none", error |-> "none"]
    /\ IdleTrunc

\* The fallback with the environment variable winning over the option.
resolveWebhookEnvFirst(url, e) ==
    IF e.set /\ e.value # "" THEN e.value ELSE url

\* The webhook onInit leaves in reporterOptions (lines 31-36).
resolveWebhook(url, e) ==
    IF url = "" /\ e.set /\ e.value # "" THEN e.value ELSE url

OnInit ==
    /\ pc = "constructed"
    /\ \E t \in InitTimes : startTime' = t
    /\ reporterOptions' =
          [reporterOptions EXCEPT !.webhookUrl = resolveWebhook(@, env)]
    /\ ctx' = [defined |-> TRUE]
    /\ pc' = "initialised"
    /\ UNCHANGED <<optionUrl, env, filesGiven, testFiles, duration, embeds, sendCalls,
                   sendError, loggerCalls, outcome>>
    /\ UNCHANGED truncVars

Log(method, message) ==
    [method |-> method, message |-> message, hasError |-> FALSE, error |-> "none"]
LogError(message, error) ==
    [method |-> "error", message |-> message, hasError |-> TRUE, error |-> error]

Resolved == [state |-> "resolved", error |-> "none"]
Rejected(error) == [state |-> "rejected", error |-> error]

\* A catch block that logs nothing.
catchBlockSwallows(calls, error) ==
    [calls |-> calls, outcome |-> Resolved]

\* The catch block (lines 55-57).  With this.ctx undefined its logger call
\* throws a TypeError that nothing catches.
catchBlock(calls, error) ==
    IF ctx.defined
    THEN [calls |-> Append(calls, LogError(LogFailed, error)), outcome |-> Resolved]
    ELSE [calls |-> calls, outcome |-> Rejected("TypeError")]

\* logger.log / logger.warn in the try block (lines 49, 51).  With this.ctx
\* undefined the call throws a TypeError, which the catch block receives.
tryLog(calls, method, message) ==
    IF ctx.defined
    THEN [calls |-> Append(calls, Log(method, message)), outcome |-> Resolved]
    ELSE catchBlock(calls, "TypeError")

OnFinished ==
    /\ pc \in {"constructed", "initialised"}
    /\ \E given \in BOOLEAN, files \in FileLists, d \in Durations :
        /\ filesGiven' = given
        /\ IF ~given /\ ~ctx.defined
           THEN \* files || this.ctx.state.getFiles(): a TypeError outside the try
                /\ outcome' = Rejected("TypeError")
                /\ pc' = "done"
                /\ UNCHANGED <<testFiles, duration, embeds, sendCalls, sendError,
                               loggerCalls>>
           ELSE /\ testFiles' = files
                /\ duration' = d
                /\ embeds' = buildEmbeds(files, d, reporterOptions, startTime + d)
                /\ IF reporterOptions.webhookUrl # ""
                   THEN /\ sendCalls' = Append(sendCalls,
                              [url |-> reporterOptions.webhookUrl, embeds |-> embeds'])
                        /\ \/ /\ pc' = "awaiting"
                              /\ sendError' = "none"
                              /\ UNCHANGED <<loggerCalls, outcome>>
                           \/ \E e \in SendErrors :
                                 LET r == catchBlock(loggerCalls, e)
                                 IN /\ sendError' = e
                                    /\ loggerCalls' = r.calls
                                    /\ outcome' = r.outcome
                                    /\ pc' = "done"
                   ELSE LET r == tryLog(loggerCalls, "warn", LogNoWebhook)
                        IN /\ loggerCalls' = r.calls
                           /\ outcome' = r.outcome
                           /\ pc' = "done"
                           /\ UNCHANGED <<sendCalls, sendError>>
    /\ UNCHANGED <<optionUrl, reporterOptions, env, ctx, startTime>>
    /\ UNCHANGED truncVars

\* The awaited promise of sendDiscordMessage resolves.
SendResolves ==
    /\ pc = "awaiting"
    /\ LET r == tryLog(loggerCalls, "log", LogSent)
       IN /\ loggerCalls' = r.calls
          /\ outcome' = r.outcome
    /\ pc' = "done"
    /\ UNCHANGED <<optionUrl, reporterOptions, env, ctx, startTime, filesGiven, testFiles,
                   duration, embeds, sendCalls, sendError>>
    /\ UNCHANGED truncVars

\* The awaited promise of sendDiscordMessage rejects.
SendRejects ==
    /\ pc = "awaiting"
    /\ \E e \in SendErrors :
          LET r == catchBlock(loggerCalls, e)
          IN /\ sendError' = e
             /\ loggerCalls' = r.calls
             /\ outcome' = r.outcome
    /\ pc' = "done"
    /\ UNCHANGED <<optionUrl, reporterOptions, env, ctx, startTime, filesGiven, testFiles,
                   duration, embeds, sendCalls>>
    /\ UNCHANGED truncVars

Next == OnInit \/ OnFinished \/ SendResolves \/ SendRejects

Spec == Init /\ [][Next]_vars

(***************************************************************************)
(* A truncation applied alone, then applied to its own result              *)
(***************************************************************************)
TruncFns == {"name", "value", "description", "stack"}

limitOf(fn) ==
    CASE fn = "name" -> NameLimit
      [] fn = "value" -> ValueLimit
      [] fn = "description" -> DescriptionLimit
      [] fn = "stack" -> StackMaxLength

truncate(fn, s) ==
    CASE fn = "name" -> truncateName(s)
      [] fn = "value" -> truncateValue(s)
      [] fn = "description" -> truncateDescription(s)
      [] fn = "stack" -> truncateStackTrace(s, StackMaxLength)

TruncLengths ==
    {0, 1} \cup UNION { ({limitOf(fn) - Spread, limitOf(fn) + Spread}
                           \cup (limitOf(fn) - 1)..(limitOf(fn) + 1)) : fn \in TruncFns }
           \cup {StackMaxLength + Len(TruncatedMarker)}

TruncInputs ==
    { Cyc(n) : n \in TruncLengths } \cup { Str(n, ".") : n \in TruncLengths }
    \cup { truncate(fn, Cyc(limitOf(fn) + Spread)) \o Str(k, "z") :
              fn \in TruncFns, k \in 0..1 }

TruncInit ==
    /\ optionUrl = ""
    /\ reporterOptions = constructor([webhookUrl |-> "", title |-> <<>>,
                                      includeStackTrace |-> Omitted,
                                      mentionOnFailure |-> <<>>,
                                      showPassedTests |-> Omitted])
    /\ env = [set |-> FALSE, value |-> ""]
    /\ ctx = [defined |-> FALSE]
    /\ startTime = 0
    /\ pc = "constructed"
    /\ filesGiven = FALSE
    /\ testFiles = <<>>
    /\ duration = 0
    /\ embeds = <<>>
    /\ sendCalls = <<>>
    /\ sendError = "none"
    /\ loggerCalls = <<>>
    /\ outcome = [state |-> "none", error |-> "none"]
    /\ tFn = "none"
    /\ tIn \in TruncInputs
    /\ tOut = <<>>
    /\ tAgain = FALSE
    /\ tOut2 = <<>>

TruncateOnce(fn) ==
    /\ tFn = "none"
    /\ tFn' = fn
    /\ tOut' = truncate(fn, tIn)
    /\ UNCHANGED <<tIn, tAgain, tOut2>>
    /\ UNCHANGED reporterVars

TruncateName == TruncateOnce("name")
TruncateValue == TruncateOnce("value")
TruncateDescription == TruncateOnce("description")
TruncateStack == TruncateOnce("stack")

TruncateAgain ==
    /\ tFn \in TruncFns
    /\ ~tAgain
    /\ tAgain' = TRUE
    /\ tOut2' = truncate(tFn, tOut)
    /\ UNCHANGED <<tFn, tIn, tOut>>
    /\ UNCHANGED reporterVars

TruncNext ==
    TruncateName \/ TruncateValue \/ TruncateDescription \/ TruncateStack \/ TruncateAgain

SpecTrunc == TruncInit /\ [][TruncNext]_vars

(***************************************************************************)
(* The result tree read by position, for stating the claims.  A position   *)
(* is <<file index, task index, ..., task index>>; pre-order, depth-first, *)
(* array order is the order in which a position comes before the ones it   *)
(* is a prefix of, and otherwise the smaller index at the first difference *)
(* comes first.                                                            *)
(***************************************************************************)
RECURSIVE PositionsUnder(_, _)
PositionsUnder(tasks, prefix) ==
    IF ~tasks.present THEN {}
    ELSE UNION { {Append(prefix, i)}
                   \cup PositionsUnder(tasks.items[i].tasks, Append(prefix, i)) :
                 i \in 1..Len(tasks.items) }

Positions(files) == UNION { PositionsUnder(files[f].tasks, <<f>>) : f \in 1..Len(files) }

RECURSIVE Descend(_, _, _)
Descend(node, p, k) ==
    IF k > Len(p) THEN node ELSE Descend(node.tasks.items[p[k]], p, k + 1)

NodeAt(files, p) == Descend(files[p[1]].tasks.items[p[2]], p, 3)

PathNames(files, p) ==
    [k \in 1..Len(p) |-> IF k = 1 THEN files[p[1]].name
                         ELSE NodeAt(files, SubSeq(p, 1, k)).name]

Before(p, q) ==
    \/ Len(p) < Len(q) /\ SubSeq(q, 1, Len(p)) = p
    \/ \E k \in 1..Len(p) :
          /\ k <= Len(q)
          /\ SubSeq(p, 1, k - 1) = SubSeq(q, 1, k - 1)
          /\ p[k] < q[k]

\* The positions of S in pre-order.
InOrder(S) ==
    [k \in 1..Cardinality(S) |->
        CHOOSE p \in S : Cardinality({q \in S : Before(q, p)}) = k - 1]

IsTest(node) == node.type = "test"
HasState(node, state) == node.result.present /\ node.result.state = state
TestsAt(files) == { p \in Positions(files) : IsTest(NodeAt(files, p)) }
TestsIn(files, state) == { p \in TestsAt(files) : HasState(NodeAt(files, p), state) }
FailedAt(files) == InOrder(TestsIn(files, "fail"))

Min(a, b) == IF a < b THEN a ELSE b

\* onFinished has built its embeds.
Built == pc \in {"awaiting", "done"} /\ embeds # <<>>
\* onFinished has run after onInit.
RanAfterInit == pc \in {"awaiting", "done"} /\ ctx.defined

IsSummary(e) ==
    /\ e.title = reporterOptions.title
    /\ e.hasTimestamp /\ e.hasFields /\ Len(e.fields) = 5 /\ ~e.hasFooter
    /\ [i \in 1..5 |-> e.fields[i].name]
         = <<PassedName, FailedName, SkippedName, DurationName, TotalName>>
IsFailedDetails(e) ==
    e.title = FailedTitle /\ e.color = ColorFailure /\ e.hasFields /\ ~e.hasTimestamp
IsPassedDetails(e) ==
    e.title = PassedTitle /\ e.color = ColorSuccess /\ e.hasDescription /\ ~e.hasFields

(***************************************************************************)
(* C1: every message buildEmbeds returns respects the size ceilings: at    *)
(* most 10 fields, every field name at most 256 units, every field value   *)
(* at most 1024, every description at most 2048.                           *)
(***************************************************************************)
C1_SizeCeilings ==
    Built =>
      \A i \in 1..Len(embeds) :
         /\ IsFailedDetails(embeds[i]) => Len(embeds[i].fields) <= MaxFields
         /\ \A j \in 1..Len(embeds[i].fields) :
               /\ Len(embeds[i].fields[j].name) <= NameLimit
               /\ Len(embeds[i].fields[j].value) <= ValueLimit
         /\ embeds[i].hasDescription => Len(embeds[i].description) <= DescriptionLimit

(***************************************************************************)
(* C2: onFinished never throws and never returns a rejected promise.       *)
(***************************************************************************)
C2_NeverRejects == outcome.state # "rejected"

C4_WebhookResolution ==
    RanAfterInit =>
       IF optionUrl = "" /\ (~env.set \/ env.value = "")
       THEN /\ sendCalls = <<>>
            /\ loggerCalls = << Log("warn", LogNoWebhook) >>
            /\ pc = "done"
       ELSE /\ Len(sendCalls) = 1
            /\ sendCalls[1].url = (IF optionUrl # "" THEN optionUrl ELSE env.value)
            /\ sendCalls[1].embeds = embeds

C4_Witness ==
    /\ RanAfterInit /\ pc = "done"
    /\ optionUrl = "" /\ env.set /\ env.value = ""
    /\ sendCalls = <<>> /\ Len(loggerCalls) = 1 /\ loggerCalls[1].method = "warn"

(***************************************************************************)
(* C5 as stated: calculateStats counts Test nodes only, each in total and  *)
(* in at most one of passed, failed, skipped, and a Test node is in total  *)
(* alone only if it has no result and its mode is neither skip nor todo.   *)
(***************************************************************************)
NoBucket(node) ==
    ~HasState(node, "pass") /\ ~HasState(node, "fail") /\ node.mode \notin {"skip", "todo"}

CountsTestsOnce(files, stats) ==
    /\ stats.total = Cardinality(TestsAt(files))
    /\ stats.passed = Cardinality(TestsIn(files, "pass"))
    /\ stats.failed = Cardinality(TestsIn(files, "fail"))
    /\ stats.skipped =
          Cardinality({ p \in TestsAt(files) :
                          /\ ~HasState(NodeAt(files, p), "pass")
                          /\ ~HasState(NodeAt(files, p), "fail")
                          /\ NodeAt(files, p).mode \in {"skip", "todo"} })

C5_UnclassifiedHasNoResult ==
    Built =>
      LET stats == calculateStats(testFiles)
          unclassified == { p \in TestsAt(testFiles) :
                              /\ ~NodeAt(testFiles, p).result.present
                              /\ NodeAt(testFiles, p).mode \notin {"skip", "todo"} }
      IN /\ CountsTestsOnce(testFiles, stats)
         /\ stats.total = stats.passed + stats.failed + stats.skipped
                            + Cardinality(unclassified)

(***************************************************************************)
(* C5 amended: as above, but a Test node is in total alone if and only if  *)
(* its result state is neither pass nor fail (having no result included)   *)
(* and its mode is neither skip nor todo.                                  *)
(***************************************************************************)
C5_StatsPartition ==
    Built =>
      LET stats == calculateStats(testFiles)
          unclassified == { p \in TestsAt(testFiles) : NoBucket(NodeAt(testFiles, p)) }
      IN /\ CountsTestsOnce(testFiles, stats)
         /\ stats.total = stats.passed + stats.failed + stats.skipped
                            + Cardinality(unclassified)

C5_Witness ==
    /\ Built
    /\ \E p \in TestsAt(testFiles) :
          NodeAt(testFiles, p).result.present /\ NoBucket(NodeAt(testFiles, p))
    /\ \E p \in Positions(testFiles) : ~IsTest(NodeAt(testFiles, p))
    /\ calculateStats(testFiles).total > 0

(***************************************************************************)
(* C6: buildEmbeds returns the summary message first, then the             *)
(* failed-details message iff some Test node failed, then the              *)
(* passed-details message iff showPassedTests is on and some Test node     *)
(* passed; nothing else, in no other order.                                *)
(***************************************************************************)
C6_MessageOrder ==
    Built =>
      LET hasFailed == TestsIn(testFiles, "fail") # {}
          hasPassed == reporterOptions.showPassedTests /\ TestsIn(testFiles, "pass") # {}
          n == 1 + (IF hasFailed THEN 1 ELSE 0) + (IF hasPassed THEN 1 ELSE 0)
      IN /\ Len(embeds) = n
         /\ IsSummary(embeds[1])
         /\ hasFailed => IsFailedDetails(embeds[2])
         /\ hasPassed => IsPassedDetails(embeds[n])

C6_Witness ==
    /\ Built /\ Len(embeds) = 3
    /\ IsSummary(embeds[1]) /\ IsFailedDetails(embeds[2]) /\ IsPassedDetails(embeds[3])

(***************************************************************************)
(* C7: the summary's color is the failure color iff some test failed and   *)
(* the success color otherwise; its description is present, and is         *)
(* mentionOnFailure, iff some test failed and mentionOnFailure is not      *)
(* empty.                                                                  *)
(***************************************************************************)
C7_SummaryColorAndMention ==
    Built =>
      LET failed == Cardinality(TestsIn(testFiles, "fail"))
          mention == reporterOptions.mentionOnFailure
      IN /\ embeds[1].color = (IF failed > 0 THEN ColorFailure ELSE ColorSuccess)
         /\ embeds[1].hasDescription <=> (failed > 0 /\ mention # <<>>)
         /\ embeds[1].hasDescription => embeds[1].description = mention

C7_Witness ==
    /\ Built /\ TestsIn(testFiles, "fail") # {}
    /\ embeds[1].color = ColorFailure
    /\ embeds[1].hasDescription /\ embeds[1].description = Mention

\* The record getFailedTests is to give for the failed test at position p.
RecordAt(files, p) ==
    [name |-> join(PathNames(files, p), PathSep),
     error |-> failedError(NodeAt(files, p), reporterOptions.includeStackTrace)]

(***************************************************************************)
(* C8: with N >= 1 failed tests the failed-details message has min(N, 10)  *)
(* fields, field i made from the i-th failed test in pre-order, and its    *)
(* description is 'Showing 10 of N failed tests' iff N > 10, absent        *)
(* otherwise.                                                              *)
(***************************************************************************)
C8_FirstTenFailed ==
    (Built /\ TestsIn(testFiles, "fail") # {}) =>
      LET at == FailedAt(testFiles)
          N == Len(at)
          e == embeds[2]
      IN /\ Len(e.fields) = Min(N, 10)
         /\ \A i \in 1..Min(N, 10) :
               /\ e.fields[i].name = truncateName(RecordAt(testFiles, at[i]).name)
               /\ e.fields[i].value = truncateValue(RecordAt(testFiles, at[i]).error)
         /\ e.hasDescription <=> N > 10
         /\ e.hasDescription =>
               e.description = ShowingPrefix \o <<"1", "0">> \o OfInfix
                                 \o toString(N) \o FailedSuffix

C8_Witness ==
    /\ Built /\ Cardinality(TestsIn(testFiles, "fail")) > 10
    /\ Len(embeds[2].fields) = 10
    /\ embeds[2].hasDescription
    /\ embeds[2].fields[10].name = <<"f">> \o PathSep \o <<"s">> \o PathSep \o <<"t", "1", "0">>

(***************************************************************************)
(* C9: getFailedTests gives one record per failed Test node, as many as    *)
(* Stats.failed, in pre-order, each named by the file name, the ancestor   *)
(* suites' names and the test's name joined by ' > '.                      *)
(***************************************************************************)
C9_FailedRecords ==
    Built =>
      LET at == FailedAt(testFiles)
          got == getFailedTests(testFiles, reporterOptions.includeStackTrace)
      IN /\ Len(got) = Len(at)
         /\ Len(got) = calculateStats(testFiles).failed
         /\ \A i \in 1..Len(at) :
               got[i].name = join(PathNames(testFiles, at[i]), PathSep)

C9_Witness ==
    /\ Built /\ testFiles = Nested
    /\ [i \in 1..3 |->
          getFailedTests(testFiles, reporterOptions.includeStackTrace)[i].name]
         = << <<"f", "1">> \o PathSep \o <<"s", "1">> \o PathSep \o <<"b">>,
              <<"f", "1">> \o PathSep \o <<"s", "1">> \o PathSep \o <<"s", "2">>
                 \o PathSep \o <<"d">>,
              <<"f", "1">> \o PathSep \o <<"g">> >>

(***************************************************************************)
(* C10: each truncation leaves a string within its limit as it is, and     *)
(* applied to its own result changes nothing.                              *)
(***************************************************************************)
C10_TruncationIdempotent ==
    tFn \in TruncFns =>
       /\ Len(tIn) <= limitOf(tFn) => tOut = tIn
       /\ tAgain => tOut2 = tOut

C10_Witness ==
    /\ tFn = "stack" /\ tAgain
    /\ Len(tIn) > StackMaxLength
    /\ Len(tOut) = StackMaxLength + Len(TruncatedMarker)
    /\ tOut2 = tOut

====
